---- MODULE Spec2Model ----
(***************************************************************************)
(* dlta-scaffold (internal/tools/dlta-scaffold/main.go): a one-shot code   *)
(* generator.  One invocation validates its flags, looks the name up in    *)
(* the provider registry and, in init mode, writes a JSON summary of the   *)
(* schema's properties or, in scaffold mode, writes six artefacts.         *)
(*                                                                         *)
(* A behaviour is a series of invocations for one -name, -type and         *)
(* -dlta-path over one file system; -output-type and -force are chosen     *)
(* per invocation.  Between invocations the user may edit the summary.     *)
(*                                                                         *)
(* Strings that are paths are sequences of tokens in which "/" is the      *)
(* separator, so that Sprintf is concatenation and the resolution of a     *)
(* path by the operating system is a computation.                          *)
(***************************************************************************)
EXTENDS Bags, FiniteSets, Integers, Naturals, Sequences, TLC

VARIABLES
    cwd,        \* working directory of every invocation (sequence of names)
    files,      \* the files: resolved path -> content
    dirs,       \* the directories that exist (resolved paths)
    flags,      \* -name, -type, -dlta-path of the behaviour's invocations
    args,       \* -output-type and -force of the current invocation
    pc,         \* position of the current invocation
    gen,        \* the documentationGenerator built by getContent
    exit,       \* how the last invocation ended, "none" when there is none to look at
    lookups,    \* registry collections consulted by the current invocation
    attempts,   \* write attempts of the current invocation, in order
    before,     \* files and directories when the current invocation started
    edited,     \* the summary was edited since init last wrote it
    initWrote,  \* the summary init last wrote: its path and published paths
    runs,       \* invocations started
    faults,     \* file operations that failed for an outside reason
    edits       \* edits of the summary by the user

vars == <<cwd, files, dirs, flags, args, pc, gen, exit, lookups, attempts,
          before, edited, initWrote, runs, faults, edits>>

(***************************************************************************)
(* Bounds                                                                  *)
(***************************************************************************)
MaxRuns == 2
MaxFaults == 1
MaxEdits == 1

(***************************************************************************)
(* Small helpers                                                           *)
(***************************************************************************)
EmptyMap == [x \in {} |-> x]

NoPath == <<"<none>">>

Merge(f, g) == [x \in (DOMAIN f) \cup (DOMAIN g) |-> IF x \in DOMAIN g THEN g[x] ELSE f[x]]

(***************************************************************************)
(* Paths.  Resolve is what the operating system does with a path string:   *)
(* a leading "/" makes it absolute, otherwise it is taken from the working *)
(* directory; repeated and trailing separators are ignored.                *)
(***************************************************************************)
Sep == "/"

IsAbs(p) == Len(p) > 0 /\ p[1] = Sep

Components(p) == SelectSeq(p, LAMBDA s : s # Sep)

Resolve(p, wd) == IF IsAbs(p) THEN Components(p) ELSE wd \o Components(p)

Parent(rp) == SubSeq(rp, 1, Len(rp) - 1)

Prefixes(rp) == {SubSeq(rp, 1, n) : n \in 0..Len(rp)}

\* fileName + ".json": the name's text followed by the extension
JsonFile(n) ==
    CASE n = "azurerm_subnet" -> "azurerm_subnet.json"
      [] n = "azurerm_private_endpoint" -> "azurerm_private_endpoint.json"
      [] n = "azurerm_client_config" -> "azurerm_client_config.json"
      [] n = "azurerm_cosmosdb_account" -> "azurerm_cosmosdb_account.json"
      [] n = "azurerm_nested" -> "azurerm_nested.json"
      [] n = "azurerm_nope" -> "azurerm_nope.json"
      [] n = "terraform_azurerm" -> "terraform_azurerm.json"
      [] n = "devops_pipeline" -> "devops_pipeline.json"
      [] OTHER -> ".json"

resourceKind(isResource) == IF isResource THEN "r" ELSE "d"

\* Sprintf("/%s/%s/%s/%s/", dltaPath, resourceKind, dirName, subDir)
DirNameOf(dltaPath, kind, dirName, subDir) ==
    <<Sep>> \o dltaPath \o <<Sep, kind, Sep, dirName, Sep, subDir, Sep>>

\* Sprintf("/%s/%s/%s/%s/%s", dltaPath, resourceKind, dirName, subDir, fileName)
FileNameOf(dltaPath, kind, dirName, subDir, fileName) ==
    <<Sep>> \o dltaPath \o <<Sep, kind, Sep, dirName, Sep, subDir, Sep, fileName>>

\* Sprintf("%s/%s/%s/%s/%s.json", dltaPath, resourceKind, dirName, subDir, fileName)
SummaryNameOf(dltaPath, kind, dirName, subDir, fileName) ==
    dltaPath \o <<Sep, kind, Sep, dirName, Sep, subDir, Sep, JsonFile(fileName)>>

(***************************************************************************)
(* The registry: provider.SupportedTypedServices() and                     *)
(* provider.SupportedUntypedServices().  A schema maps a field name to     *)
(* its schema.Schema; Elem is a *schema.Resource (a block, with its own    *)
(* schema), a *schema.Schema or nil.                                       *)
(***************************************************************************)
NoElem == [isResource |-> FALSE, isSchema |-> FALSE, Schema |-> EmptyMap]

ElemSchema == [isResource |-> FALSE, isSchema |-> TRUE, Schema |-> EmptyMap]

ElemResource(s) == [isResource |-> TRUE, isSchema |-> FALSE, Schema |-> s]

Field(type, req, opt, comp, elem) ==
    [Type |-> type, Required |-> req, Optional |-> opt, Computed |-> comp, Elem |-> elem]

ReqString == Field("TypeString", TRUE, FALSE, FALSE, NoElem)

OptString == Field("TypeString", FALSE, TRUE, FALSE, NoElem)

SubnetResourceSchema ==
    [f \in {"name", "resource_group_name", "delegation", "id"} |->
        CASE f = "name" -> ReqString
          [] f = "resource_group_name" -> ReqString
          [] f = "id" -> Field("TypeString", FALSE, FALSE, TRUE, NoElem)
          [] f = "delegation" ->
                Field("TypeList", FALSE, TRUE, FALSE, ElemResource(
                    [g \in {"name", "service_delegation"} |->
                        CASE g = "name" -> ReqString
                          [] g = "service_delegation" ->
                                Field("TypeList", TRUE, FALSE, FALSE, ElemResource(
                                    [h \in {"name", "actions"} |->
                                        CASE h = "name" -> ReqString
                                          [] h = "actions" ->
                                                Field("TypeList", FALSE, TRUE, FALSE, ElemSchema)]))]))]

PrivateEndpointSchema ==
    [f \in {"name", "location", "private_service_connection"} |->
        CASE f = "name" -> ReqString
          [] f = "location" -> ReqString
          [] f = "private_service_connection" ->
                Field("TypeList", TRUE, FALSE, FALSE, ElemResource(
                    [g \in {"name", "is_manual_connection", "private_connection_resource_id"} |->
                        CASE g = "name" -> ReqString
                          [] g = "is_manual_connection" ->
                                Field("TypeBool", TRUE, FALSE, FALSE, NoElem)
                          [] g = "private_connection_resource_id" -> OptString]))]

\* a block that has a location of its own beside the resource's location
CosmosdbAccountSchema ==
    [f \in {"name", "location", "geo_location"} |->
        CASE f = "geo_location" ->
                Field("TypeSet", TRUE, FALSE, FALSE, ElemResource(
                    [g \in {"location", "failover_priority"} |->
                        CASE g = "location" -> ReqString
                          [] g = "failover_priority" ->
                                Field("TypeInt", TRUE, FALSE, FALSE, NoElem)]))
          [] OTHER -> ReqString]

OptComputedString == Field("TypeString", FALSE, TRUE, TRUE, NoElem)

\* blocks nested three deep, all Required, with an Optional and Computed
\* field at each level
NestedSchema ==
    [f \in {"name", "sku", "settings"} |->
        CASE f = "name" -> ReqString
          [] f = "sku" -> OptComputedString
          [] f = "settings" ->
                Field("TypeList", TRUE, FALSE, FALSE, ElemResource(
                    [g \in {"mode", "tier", "rules"} |->
                        CASE g = "mode" -> ReqString
                          [] g = "tier" -> OptComputedString
                          [] g = "rules" ->
                                Field("TypeList", TRUE, FALSE, FALSE, ElemResource(
                                    [h \in {"priority", "state", "match"} |->
                                        CASE h = "priority" ->
                                                Field("TypeInt", TRUE, FALSE, FALSE, NoElem)
                                          [] h = "state" -> OptComputedString
                                          [] h = "match" ->
                                                Field("TypeList", TRUE, FALSE, FALSE,
                                                      ElemResource(
                                                          [i \in {"pattern"} |-> ReqString]))]))]))]

SubnetDataSchema ==
    [f \in {"name", "virtual_network_name", "resource_group_name", "address_prefixes"} |->
        CASE f = "address_prefixes" -> Field("TypeList", FALSE, FALSE, TRUE, ElemSchema)
          [] OTHER -> ReqString]

ClientConfigSchema ==
    [f \in {"client_id", "tenant_id"} |-> Field("TypeString", FALSE, FALSE, TRUE, NoElem)]

\* service.Resources() of the typed services, by ResourceType()
TypedResources ==
    [n \in {"azurerm_private_endpoint", "azurerm_nested"} |->
        IF n = "azurerm_nested" THEN NestedSchema ELSE PrivateEndpointSchema]

\* service.SupportedResources() of the untyped services, by key
UntypedResources ==
    [n \in {"azurerm_subnet", "azurerm_cosmosdb_account"} |->
        IF n = "azurerm_subnet" THEN SubnetResourceSchema ELSE CosmosdbAccountSchema]

\* service.DataSources() of the typed services, by ResourceType()
TypedDataSources == [n \in {"azurerm_client_config"} |-> ClientConfigSchema]

\* service.SupportedDataSources() of the untyped services, by key
UntypedDataSources == [n \in {"azurerm_subnet"} |-> SubnetDataSchema]

(***************************************************************************)
(* Attributes                                                              *)
(***************************************************************************)
isBlock(s) == s.Elem.isResource

\* cloneSchemaToAttributes; the sample schemas carry no ValidateFunc, so
\* PossibleValues stays empty, and Default is never set by the code
cloneSchemaToAttributes(s, block, parentPath, fieldName, attrs) ==
    [IsBlock |-> block, Required |-> s.Required, Optional |-> s.Optional,
     Computed |-> s.Computed, DataTypeString |-> s.Type,
     ResourcePath |-> parentPath \o <<fieldName>>, Attributes |-> attrs]

RECURSIVE getAllInputAttributes(_, _)
getAllInputAttributes(input, parentPath) ==
    [fieldName \in {f \in DOMAIN input : input[f].Required \/ input[f].Optional} |->
        IF isBlock(input[fieldName])
        THEN cloneSchemaToAttributes(input[fieldName], TRUE, parentPath, fieldName,
                 getAllInputAttributes(input[fieldName].Elem.Schema,
                                       parentPath \o <<fieldName>>))
        ELSE cloneSchemaToAttributes(input[fieldName], FALSE, parentPath, fieldName, EmptyMap)]

\* a package-level attribute{DataTypeString: "TypeString", Description: ...}
InjectedAttribute ==
    [IsBlock |-> FALSE, Required |-> FALSE, Optional |-> FALSE, Computed |-> FALSE,
     DataTypeString |-> "TypeString", ResourcePath |-> <<>>, Attributes |-> EmptyMap]

summaryAttribute(published, block, req, opt, comp) ==
    [Published |-> published, IsBlock |-> block, Required |-> req, Optional |-> opt,
     Computed |-> comp, DependentResourcePath |-> ""]

\* printAttributes publishing every required attribute, whatever its parent
RECURSIVE printAttributesAnyParent(_, _, _, _)
printAttributesAnyParent(a, keys, parentRequired, retAttributes) ==
    IF keys = {} THEN retAttributes
    ELSE LET k == CHOOSE x \in keys : TRUE
             own == [p \in {a[k].ResourcePath} |->
                        summaryAttribute(a[k].Required, a[k].IsBlock, a[k].Required,
                                         a[k].Optional, a[k].Computed)]
             sub == printAttributesAnyParent(a[k].Attributes, DOMAIN a[k].Attributes,
                                             TRUE, EmptyMap)
             nested == [n \in DOMAIN sub |->
                          summaryAttribute(sub[n].Published, sub[n].IsBlock,
                                           FALSE, FALSE, FALSE)]
         IN  printAttributesAnyParent(a, keys \ {k}, parentRequired,
                 IF a[k].IsBlock THEN Merge(Merge(retAttributes, own), nested)
                 ELSE Merge(retAttributes, own))

\* the loop of printAttributes over the keys still to visit
RECURSIVE printAttributes(_, _, _, _)
summariseAttributes(a, parentRequired) == printAttributes(a, DOMAIN a, parentRequired, EmptyMap)

printAttributes(a, keys, parentRequired, retAttributes) ==
    IF keys = {} THEN retAttributes
    ELSE LET k == CHOOSE x \in keys : TRUE
             published == IF parentRequired THEN a[k].Required ELSE FALSE
             own == [p \in {a[k].ResourcePath} |->
                        summaryAttribute(published, a[k].IsBlock, a[k].Required,
                                         a[k].Optional, a[k].Computed)]
             sub == summariseAttributes(a[k].Attributes, published)
             nested == [n \in DOMAIN sub |->
                          summaryAttribute(sub[n].Published, sub[n].IsBlock,
                                           FALSE, FALSE, FALSE)]
         IN  printAttributes(a, keys \ {k}, parentRequired,
                 IF a[k].IsBlock THEN Merge(Merge(retAttributes, own), nested)
                 ELSE Merge(retAttributes, own))

(***************************************************************************)
(* Text.  A file's content is a record: the field that holds the body      *)
(* names what kind of text it is, lead and trail count the white space     *)
(* around it.  A JSON document holds the members of its object; Unmarshal  *)
(* fills the map from them and leaves it empty for any other text.         *)
(***************************************************************************)
\* json.MarshalIndent of a map[string]summaryAttribute
writeJson(m) == [json |-> {<<k, m[k]>> : k \in DOMAIN m}, lead |-> 0, trail |-> 0]

\* strings.TrimSpace
TrimSpace(t) == [t EXCEPT !.lead = 0, !.trail = 0]

\* text that is not the tool's: a file someone else put there
ForeignText == [foreign |-> "old", lead |-> 0, trail |-> 1]

IsJsonText(t) == "json" \in DOMAIN t

\* json.Unmarshal(fileContent, &data), its error ignored
Unmarshal(t) ==
    IF IsJsonText(t)
    THEN [k \in {m[1] : m \in t.json} |-> (CHOOSE m \in t.json : m[1] = k)[2]]
    ELSE EmptyMap

(***************************************************************************)
(* The generator: reading the summary back, the published attributes       *)
(***************************************************************************)
IsSpecial(name) == name = "terraform_azurerm" \/ name = "devops_pipeline"

\* filepath.Abs: a relative path is joined to the working directory
Abs(p, wd) == Resolve(p, wd)

\* outputFileName of readResourceProperties
readOutputFileName(g) ==
    SummaryNameOf(g.dltaPath, resourceKind(g.isResource), g.resourceName, "resource",
                  g.resourceName)

\* outputPath of readResourceProperties
readOutputPath(g, wd) == Abs(readOutputFileName(g), wd)

\* a reader that falls back to the summary init would write
readResourcePropertiesDefault(g, fs, wd) ==
    IF IsSpecial(g.resourceName) THEN EmptyMap
    ELSE IF readOutputPath(g, wd) \notin DOMAIN fs
    THEN summariseAttributes(getAllInputAttributes(g.resource.Schema, <<g.resourceName>>), TRUE)
    ELSE Unmarshal(fs[readOutputPath(g, wd)])

readResourceProperties(g, fs, wd) ==
    IF IsSpecial(g.resourceName) THEN EmptyMap
    ELSE IF readOutputPath(g, wd) \notin DOMAIN fs THEN EmptyMap
    ELSE Unmarshal(fs[readOutputPath(g, wd)])

\* sa[path].Published, the zero value for a path the map does not hold
Published(sa, path) == path \in DOMAIN sa /\ sa[path].Published

RECURSIVE getAllPublishedAttributes(_, _)
getAllPublishedAttributes(allAttr, sa) ==
    [k \in {x \in DOMAIN allAttr : Published(sa, allAttr[x].ResourcePath)} |->
        IF allAttr[k].IsBlock
        THEN LET sub == getAllPublishedAttributes(allAttr[k].Attributes, sa)
             IN  [allAttr[k] EXCEPT !.Attributes =
                     [k2 \in {x \in DOMAIN sub : Published(sa, sub[x].ResourcePath)} |->
                         sub[k2]]]
        ELSE allAttr[k]]

getPublishedAttributes(g, fs, wd) ==
    IF g.resource.isNil THEN EmptyMap
    ELSE getAllPublishedAttributes(
             getAllInputAttributes(g.resource.Schema, <<g.resourceName>>),
             readResourceProperties(g, fs, wd))

DltaCodes ==
    <<"dlta_location_short_code", "dlta_environment_char", "dlta_business_short_code",
      "dlta_application_short_code", "dlta_instance_id", "dlta_vendor_asset_short_code">>

getInjectAttributes(g) ==
    LET names ==
            IF g.resourceName = "terraform_azurerm"
            THEN {"terraform_azurerm_azurerm_source", "terraform_azurerm_azurerm_version",
                  "terraform_azurerm_azapi_source", "terraform_azurerm_azapi_version",
                  "dlta_terraform_template", "dlta_naming_convention"}
            ELSE IF g.resourceName = "devops_pipeline" THEN {}
            ELSE {DltaCodes[i] : i \in DOMAIN DltaCodes}
                 \cup {"dlta_terraform_template", "dlta_naming_convention",
                       "dlta_terraform_module_name", "dlta_terraform_is_data_source"}
                 \cup (IF g.isDataSource THEN {"dlta_terraform_data_source_name"} ELSE {})
    IN  [n \in names |-> InjectedAttribute]

injectAttributes(g, fs, wd) == Merge(getInjectAttributes(g), getPublishedAttributes(g, fs, wd))

\* strings.Contains(n, "dlta") and strings.Contains(n, "dlta_"), over the
\* names that occur: the injected dlta_* names are the ones that hold it
ContainsDlta(n) ==
    n \in {DltaCodes[i] : i \in DOMAIN DltaCodes}
           \cup {"dlta_terraform_template", "dlta_naming_convention",
                 "dlta_terraform_module_name", "dlta_terraform_is_data_source",
                 "dlta_terraform_data_source_name"}

(***************************************************************************)
(* Generated text.  A line is [lhs, form, ref]; the lines a loop over a Go *)
(* map emits come in no fixed order, so they are kept as a bag.            *)
(***************************************************************************)
Line(lhs, form, ref) == [lhs |-> lhs, form |-> form, ref |-> ref]

\* the bag of the lines of a set of <<position, line>> pairs
BagOfEmits(emits) ==
    [l \in {e[2] : e \in emits} |-> Cardinality({e \in emits : e[2] = l})]

\* genVariableNameFromResourcePath: the path's parts joined by "_"
genVariableNameFromResourcePath(rp) == rp

\* the assignment of a top-level attribute that is no block
templateTopLine(n, at, isDataSource) ==
    CASE n \in {"resource_group_name"} ->
            IF isDataSource THEN Line(<<n>>, "quoted", <<"DataResourceGroup">>)
            ELSE Line(<<n>>, "module_name", <<"ResourceGroup">>)
      [] n \in {"virtual_network_name", "storage_account_name"} ->
            IF isDataSource THEN Line(<<n>>, "quoted", <<"DataResourceGroup">>)
            ELSE Line(<<n>>, "module_name", <<n>>)
      [] n \in {"private_connection_resource_id", "subnet_id", "service_plan_id"} ->
            IF isDataSource THEN Line(<<n>>, "quoted", <<"DataResourceGroup">>)
            ELSE Line(<<n>>, "module_id", <<n>>)
      [] n = "storage_uses_managed_identity" ->
            IF isDataSource THEN Line(<<"storage_account_name">>, "quoted", <<"DataResourceGroup">>)
            ELSE Line(<<n>>, "bare", <<n>>)
      [] n = "virtual_network_subnet_id" ->
            IF isDataSource THEN Line(<<"storage_account_name">>, "quoted", <<"DataResourceGroup">>)
            ELSE Line(<<n>>, "module_id", <<n>>)
      [] OTHER ->
            IF at.DataTypeString = "TypeList" THEN Line(<<n>>, "bare", <<n>>)
            ELSE Line(<<n>>, "quoted", <<n>>)

plainLine(n, at) ==
    IF at.DataTypeString = "TypeList" THEN Line(<<n>>, "bare", <<n>>)
    ELSE Line(<<n>>, "quoted", <<n>>)

\* the lines of the attribute loop of terraformTemplateBlock, by position
templateEmits(attributes, isDataSource) ==
    LET tops == {n \in DOMAIN attributes :
                    /\ ~(n = "location" \/ ContainsDlta(n) \/ n = "name")
                    /\ ~attributes[n].Computed}
        level1 == {<<<<n>>, templateTopLine(n, attributes[n], isDataSource)>> :
                      n \in {x \in tops : ~attributes[x].IsBlock}}
        pairs == UNION {{<<n, n1>> : n1 \in DOMAIN attributes[n].Attributes} :
                          n \in {x \in tops : attributes[x].IsBlock}}
        at1(pr) == attributes[pr[1]].Attributes[pr[2]]
        level2 == {<<<<pr[1], pr[2]>>,
                     IF pr[2] = "private_connection_resource_id"
                     THEN (IF isDataSource
                           THEN Line(<<pr[2]>>, "quoted", <<"DataResourceGroup">>)
                           ELSE Line(<<pr[2]>>, "module_id", <<pr[2]>>))
                     ELSE plainLine(pr[2], at1(pr))>> :
                      pr \in {x \in pairs : ~at1(x).IsBlock /\ x[2] # "name"}}
        triples == UNION {{<<pr[1], pr[2], n2>> : n2 \in DOMAIN at1(pr).Attributes} :
                            pr \in {x \in pairs : at1(x).IsBlock}}
        at2(tr) == attributes[tr[1]].Attributes[tr[2]].Attributes[tr[3]]
        level3 == {<<tr,
                     IF tr[3] = "name"
                     THEN Line(genVariableNameFromResourcePath(at2(tr).ResourcePath), "bare",
                               genVariableNameFromResourcePath(at2(tr).ResourcePath))
                     ELSE plainLine(tr[3], at2(tr))>> :
                      tr \in {x \in triples :
                                ~(x[3] = "name" /\ at2(x).ResourcePath #
                                    <<"azurerm_subnet", "delegation", "service_delegation", "name">>)}}
    IN  level1 \cup level2 \cup level3

LocationLine == Line(<<"location">>, "quoted", <<"location">>)

DltaLine(code) == Line(<<code>>, "bare", <<code>>)

templateHeader(g) ==
    IF g.isDataSource
    THEN <<Line(<<"data", g.resourceName>>, "open", <<"dlta_terraform_module_name">>)>>
    ELSE <<Line(<<"module">>, "open", <<"dlta_terraform_module_name">>),
           Line(<<"source">>, "modules_path", <<g.resourceName>>)>>

CloseLine == Line(<<>>, "close", <<>>)

StaticLine(what) == Line(<<what>>, "static", <<>>)

Text(kind, fixed, loop, tail) ==
    [kind |-> kind, fixed |-> fixed, loop |-> loop, tail |-> tail, lead |-> 0, trail |-> 0]

terraformTemplateBlock(g, fs, wd) ==
    LET attributes == injectAttributes(g, fs, wd)
    IN  IF ~IsSpecial(g.resourceName)
        THEN Text("template",
                  templateHeader(g)
                    \o (IF "location" \in DOMAIN attributes
                           /\ attributes["location"].DataTypeString # ""
                        THEN <<LocationLine>> ELSE <<>>)
                    \o [i \in DOMAIN DltaCodes |-> DltaLine(DltaCodes[i])],
                  BagOfEmits(templateEmits(attributes, g.isDataSource)),
                  <<CloseLine>>)
        ELSE Text("template", <<StaticLine(g.resourceName)>>, EmptyBag, <<>>)

\* strings.Split(path, ".") joined by "_" without its first part
localNameOf(rp) == Tail(rp)

translateDataType(terraType) ==
    CASE terraType = "TypeString" -> "string"
      [] terraType = "TypeBool" -> "bool"
      [] terraType \in {"TypeInt", "TypeFloat"} -> "number"
      [] terraType = "TypeList" -> "list"
      [] terraType = "TypeMap" -> "map"
      [] OTHER -> "property undefiend"

\* the children of the blocks among the attributes `tops`, as <<n, n1>>
childPairs(attributes, tops) ==
    UNION {{<<n, n1>> : n1 \in DOMAIN attributes[n].Attributes} :
              n \in {x \in tops : attributes[x].IsBlock}}

childOf(attributes, pr) == attributes[pr[1]].Attributes[pr[2]]

\* the children of the blocks among the children `pairs`, as <<n, n1, n2>>
grandPairs(attributes, pairs) ==
    UNION {{<<pr[1], pr[2], n2>> : n2 \in DOMAIN childOf(attributes, pr).Attributes} :
              pr \in {x \in pairs : childOf(attributes, x).IsBlock}}

grandOf(attributes, tr) == attributes[tr[1]].Attributes[tr[2]].Attributes[tr[3]]

VarLine(n) == Line(<<n>>, "var", <<n>>)

moduleEmits(attributes) ==
    LET tops == {n \in DOMAIN attributes :
                    ~attributes[n].Computed /\ n # "name" /\ ~ContainsDlta(n)}
        level1 == {<<<<n>>, VarLine(n)>> : n \in {x \in tops : ~attributes[x].IsBlock}}
        blocks1 == UNION {{<<<<n, "{">>, Line(<<n>>, "open", <<>>)>>,
                           <<<<n, "}">>, CloseLine>>} :
                             n \in {x \in tops : attributes[x].IsBlock}}
        pairs == childPairs(attributes, tops)
        level2 == {<<<<pr[1], pr[2]>>,
                     IF pr[2] = "name"
                     THEN Line(<<"name">>, "local",
                               localNameOf(childOf(attributes, pr).ResourcePath))
                     ELSE VarLine(pr[2])>> :
                      pr \in {x \in pairs : ~childOf(attributes, x).IsBlock}}
        blocks2 == UNION {{<<<<pr[1], pr[2], "{">>, Line(<<pr[2]>>, "open", <<>>)>>,
                           <<<<pr[1], pr[2], "}">>, CloseLine>>} :
                             pr \in {x \in pairs : childOf(attributes, x).IsBlock}}
        level3 == {<<tr,
                     IF tr[3] = "name"
                     THEN Line(<<"name">>, "var",
                               genVariableNameFromResourcePath(grandOf(attributes, tr).ResourcePath))
                     ELSE VarLine(tr[3])>> :
                      tr \in grandPairs(attributes, pairs)}
    IN  level1 \cup blocks1 \cup level2 \cup blocks2 \cup level3

terraformModuleBlock(g, fs, wd) ==
    Text("module",
         <<Line(<<"resource", g.resourceName, "this">>, "open", <<>>),
           Line(<<"name">>, "local", <<"name">>)>>,
         BagOfEmits(moduleEmits(injectAttributes(g, fs, wd))),
         <<CloseLine>>)

\* a variable declaration: variable "<name>" { description, type }
Variable(name, at) == Line(name, "variable", <<translateDataType(at.DataTypeString)>>)

\* variableEmits with one more level: the children of a block at the third
\* level get their variables too
variableEmitsDeep(attributes) ==
    LET tops == {n \in DOMAIN attributes :
                    /\ n # "name"
                    /\ n \notin {"dlta_terraform_template", "dlta_naming_convention",
                                  "dlta_terraform_module_name", "dlta_terraform_is_data_source"}
                    /\ ~attributes[n].Computed}
        level1 == {<<<<n>>, Variable(<<n>>, attributes[n])>> :
                      n \in {x \in tops : ~attributes[x].IsBlock}}
        pairs == childPairs(attributes, tops)
        level2 == {<<<<pr[1], pr[2]>>, Variable(<<pr[2]>>, childOf(attributes, pr))>> :
                      pr \in {x \in pairs : ~childOf(attributes, x).IsBlock /\ x[2] # "name"}}
        level3 == {<<tr,
                     IF tr[3] = "name"
                     THEN Variable(localNameOf(grandOf(attributes, tr).ResourcePath),
                                   grandOf(attributes, tr))
                     ELSE Variable(<<tr[3]>>, grandOf(attributes, tr))>> :
                      tr \in grandPairs(attributes, pairs)}
        level4 == UNION {{<<tr \o <<n3>>,
                           Variable(<<n3>>, grandOf(attributes, tr).Attributes[n3])>> :
                            n3 \in DOMAIN grandOf(attributes, tr).Attributes} :
                          tr \in {x \in grandPairs(attributes, pairs) :
                                    grandOf(attributes, x).IsBlock}}
    IN  level1 \cup level2 \cup level3 \cup level4

variableEmits(attributes) ==
    LET tops == {n \in DOMAIN attributes :
                    /\ n # "name"
                    /\ n \notin {"dlta_terraform_template", "dlta_naming_convention",
                                  "dlta_terraform_module_name", "dlta_terraform_is_data_source"}
                    /\ ~attributes[n].Computed}
        level1 == {<<<<n>>, Variable(<<n>>, attributes[n])>> :
                      n \in {x \in tops : ~attributes[x].IsBlock}}
        pairs == childPairs(attributes, tops)
        level2 == {<<<<pr[1], pr[2]>>, Variable(<<pr[2]>>, childOf(attributes, pr))>> :
                      pr \in {x \in pairs : ~childOf(attributes, x).IsBlock /\ x[2] # "name"}}
        level3 == {<<tr,
                     IF tr[3] = "name"
                     THEN Variable(localNameOf(grandOf(attributes, tr).ResourcePath),
                                   grandOf(attributes, tr))
                     ELSE Variable(<<tr[3]>>, grandOf(attributes, tr))>> :
                      tr \in grandPairs(attributes, pairs)}
    IN  level1 \cup level2 \cup level3

terraformVariableBlock(g, fs, wd) ==
    Text("variables", <<>>, BagOfEmits(variableEmits(injectAttributes(g, fs, wd))), <<>>)

\* getResourceShortCode, kept symbolic: the first letters of the name's parts
getResourceShortCode(resourceName) == <<"shortcode", resourceName>>

localEmits(g, attributes) ==
    LET names == {<<<<n>>, Line(<<"name">>,
                               IF g.resourceName = "azurerm_storage_account"
                               THEN "format_plain" ELSE "format_dashed",
                               <<"dlta_vendor_asset_short_code">>)>> :
                      n \in {x \in DOMAIN attributes : x = "name"}}
        pairs == childPairs(attributes, DOMAIN attributes)
        level2 == {<<<<pr[1], pr[2]>>,
                     Line(localNameOf(childOf(attributes, pr).ResourcePath), "format_dashed",
                          getResourceShortCode(childOf(attributes, pr).ResourcePath[2]))>> :
                      pr \in {x \in pairs : x[2] = "name"}}
    IN  names \cup level2

terraformLocalBlock(g, fs, wd) ==
    Text("locals", <<Line(<<"locals">>, "open", <<>>)>>,
         BagOfEmits(localEmits(g, injectAttributes(g, fs, wd))), <<CloseLine>>)

\* the control getPalletProp builds: its id and its type
Control(id, type) == Line(<<id>>, "control", <<type>>)

getPalletProp(g, at, name) ==
    CASE name = "AssetType" -> Control("AssetType", "string")
      [] name = "Name" -> Control("name", "string")
      [] name \in {"location", "dlta_application_short_code", "dlta_business_short_code",
                   "dlta_environment_char", "dlta_instance_id", "dlta_location_short_code",
                   "terraform_azurerm_azapi_source", "terraform_azurerm_azapi_version",
                   "terraform_azurerm_azurerm_source", "terraform_azurerm_azurerm_version"} ->
            Control(name, "select")
      [] name = "dlta_terraform_template" -> Control(name, "textarea")
      [] name = "resource_group_name" ->
            Control(IF g.isDataSource THEN "DataResourceGroup" ELSE "ResourceGroup", "string")
      [] OTHER ->
            Control(name, IF at.DataTypeString = "TypeBool" /\ name # "name"
                          THEN "checkbox" ELSE translateDataType(at.DataTypeString))

palletteEmits(g, attributes) ==
    LET tops == {n \in DOMAIN attributes : n # "name"}
        level1 == {<<<<n>>, getPalletProp(g, attributes[n], n)>> :
                      n \in {x \in tops : ~attributes[x].IsBlock}}
        pairs == childPairs(attributes, tops)
        level2 == {<<<<pr[1], pr[2]>>, getPalletProp(g, childOf(attributes, pr), pr[2])>> :
                      pr \in {x \in pairs : ~childOf(attributes, x).IsBlock}}
        level3 == {<<tr, getPalletProp(g, grandOf(attributes, tr), tr[3])>> :
                      tr \in grandPairs(attributes, pairs)}
    IN  level1 \cup level2 \cup level3

\* `id` is the value uuid.New() returned
dltaPalletteCodeBlock(g, fs, wd, id) ==
    Text("pallette",
         <<Line(<<"insert", g.resourceName>>, "uuid", <<id>>),
           getPalletProp(g, InjectedAttribute, "AssetType")>>
           \o (IF ~IsSpecial(g.resourceName) /\ ~g.isDataSource
               THEN <<getPalletProp(g, InjectedAttribute, "Name")>> ELSE <<>>),
         BagOfEmits(palletteEmits(g, injectAttributes(g, fs, wd))),
         <<Line(<<"where", g.resourceName>>, "static", <<>>)>>)

\* output attributes without the name
getAllOutputAttributesIdOnly == [k \in {"id"} |-> InjectedAttribute]

\* the two entries getAllOutputAttributes returns, whatever the schema
getAllOutputAttributes == [k \in {"id", "name"} |-> InjectedAttribute]

terraformOutputBlock(g) ==
    Text("output", <<>>,
         IF g.resource.isNil THEN EmptyBag
         ELSE BagOfEmits({<<<<k>>, Line(<<k>>, "output", <<g.resourceName, "this", k>>)>> :
                             k \in DOMAIN getAllOutputAttributes}),
         <<>>)

(***************************************************************************)
(* The file system calls                                                   *)
(***************************************************************************)
\* os.Stat(path) returns no error
Stat(path, fs, ds, wd) == Resolve(path, wd) \in DOMAIN fs \/ Resolve(path, wd) \in ds

\* os.Remove(path)
Remove(path, fs, wd) == [p \in (DOMAIN fs) \ {Resolve(path, wd)} |-> fs[p]]

\* os.MkdirAll(path) returns no error
MkdirAllOk(path, ds, wd, fault) == Resolve(path, wd) \in ds \/ fault # "mkdir"

MkdirAll(path, ds, wd) == ds \cup Prefixes(Resolve(path, wd))

\* os.Create(path) returns no error: the parent directory must exist.  It
\* opens with O_CREATE|O_TRUNC, so its error is never one os.IsExist accepts
\* and the second os.Create of the code is never reached.
CreateOk(path, ds, wd, fault) == Parent(Resolve(path, wd)) \in ds /\ fault # "create"

\* os.Create(path), file.WriteString(s), file.Sync()
CreateAndWrite(path, s, fs, wd) == Merge(fs, [p \in {Resolve(path, wd)} |-> s])

Faults == {"none", "remove", "mkdir", "create"}

\* The part of writeResource and of writeInitResourceProperties from the
\* isForced test on, for the directory and file names each of them built:
\* the files and directories afterwards and what happened.
writeFile(outputDirectoryPath, outputPath, s, isForced, fs, ds, wd, fault) ==
    LET removing == isForced /\ Stat(outputPath, fs, ds, wd)
        fs1 == IF removing /\ fault # "remove" THEN Remove(outputPath, fs, wd) ELSE fs
        exists == Stat(outputPath, fs1, ds, wd)
        mkOk == MkdirAllOk(outputDirectoryPath, ds, wd, fault)
        ds1 == IF ~exists /\ mkOk THEN MkdirAll(outputDirectoryPath, ds, wd) ELSE ds
        crOk == CreateOk(outputPath, ds1, wd, fault)
    IN  [files |-> IF ~exists /\ crOk THEN CreateAndWrite(outputPath, s, fs1, wd) ELSE fs1,
         dirs |-> ds1,
         dir |-> outputDirectoryPath,
         path |-> outputPath,
         text |-> s,
         mkdir |-> ~exists,
         outcome |-> IF exists THEN "exists" ELSE IF crOk THEN "written" ELSE "failed",
         ioError |-> \/ (removing /\ fault = "remove")
                     \/ (~exists /\ (~mkOk \/ ~crOk)),
         injected |-> \/ (removing /\ fault = "remove")
                      \/ (~exists /\ ~mkOk)
                      \/ (~exists /\ fault = "create" /\ Parent(Resolve(outputPath, wd)) \in ds1)]

\* the Artefact constants scaffoldConfiguation writes, in the order of their
\* declaration
Artefacts ==
    <<"TerraformTemplate", "ModuleBlock", "VariableBlock", "LocalBlock", "OutputBlock",
      "PalletteBlock">>

fileNameOf(a) ==
    CASE a = "TerraformTemplate" -> "template.json"
      [] a = "ModuleBlock" -> "main.tf"
      [] a = "VariableBlock" -> "variables.tf"
      [] a = "PalletteBlock" -> "pallette.sql"
      [] a = "OutputBlock" -> "output.tf"
      [] a = "LocalBlock" -> "local.tf"

subDirOf(a) == IF a \in {"TerraformTemplate", "PalletteBlock"} THEN "resource" ELSE "module"

\* outputDirectoryName of writeResource
writeResourceDirectoryName(g, a) ==
    DirNameOf(g.dltaPath, resourceKind(g.isResource), g.resourceName, subDirOf(a))

\* outputFileName of writeResource
writeResourceFileName(g, a) ==
    FileNameOf(g.dltaPath, resourceKind(g.isResource), g.resourceName, subDirOf(a),
               fileNameOf(a))

\* writeResource without the removal of the previous file
writeResourceKeep(g, s, a, fs, ds, wd, fault) ==
    writeFile(writeResourceDirectoryName(g, a), writeResourceFileName(g, a), s, FALSE,
              fs, ds, wd, fault)

writeResource(g, s, a, fs, ds, wd, fault) ==
    writeFile(writeResourceDirectoryName(g, a), writeResourceFileName(g, a), s, g.isForced,
              fs, ds, wd, fault)

\* outputDirectoryName of writeInitResourceProperties
initDirectoryName(g) ==
    DirNameOf(g.dltaPath, resourceKind(g.isResource), g.resourceName, "resource")

\* the summary under the template's file name
initOutputFileNameTemplate(g) ==
    g.dltaPath \o <<Sep, resourceKind(g.isResource), Sep, g.resourceName, Sep, "resource",
                    Sep, "template.json">>

\* outputFileName of writeInitResourceProperties
initOutputFileName(g) ==
    SummaryNameOf(g.dltaPath, resourceKind(g.isResource), g.resourceName, "resource",
                  g.resourceName)

\* flatted of writeInitResourceProperties
initFlatted(g) ==
    summariseAttributes(getAllInputAttributes(g.resource.Schema, <<g.resourceName>>), TRUE)

writeInitResourceProperties(g, fs, ds, wd, fault) ==
    writeFile(initDirectoryName(g), initOutputFileName(g),
              TrimSpace(writeJson(initFlatted(g))), g.isForced, fs, ds, wd, fault)

(***************************************************************************)
(* Inputs                                                                  *)
(***************************************************************************)
Names ==
    {"", "azurerm_subnet", "azurerm_private_endpoint", "azurerm_client_config",
     "azurerm_cosmosdb_account", "azurerm_nested", "terraform_azurerm", "devops_pipeline",
     "azurerm_nope"}

Types == {"", "data", "resource", "module"}

OutputTypes == {"", "init", "scaffold", "config"}

Forces == {"", "n", "y", "yes"}

\* -dlta-path: not given, relative ("dlta"), absolute ("/dlta")
DltaPaths == {<<>>, <<"dlta">>, <<Sep, "dlta">>}

\* working directories: "/" and "/home"
Cwds == {<<>>, <<"home">>}

UUIDs == {"uuid-1", "uuid-2"}

(***************************************************************************)
(* main: the checks before run is called                                   *)
(***************************************************************************)
\* the checks without the one of -force
ValidateNoForce(name, type, outputType, dltaPath, force) ==
    IF name = "" THEN "name"
    ELSE IF type = "" THEN "type"
    ELSE IF type # "data" /\ type # "resource" THEN "type"
    ELSE IF outputType # "init" /\ outputType # "scaffold" /\ outputType # "config"
         THEN "output-type"
    ELSE IF dltaPath = <<>> THEN "dlta-path"
    ELSE "ok"

Validate(name, type, outputType, dltaPath, force) ==
    IF name = "" THEN "name"
    ELSE IF type = "" THEN "type"
    ELSE IF type # "data" /\ type # "resource" THEN "type"
    ELSE IF outputType # "init" /\ outputType # "scaffold" /\ outputType # "config"
         THEN "output-type"
    ELSE IF dltaPath = <<>> THEN "dlta-path"
    ELSE IF force = "" THEN "force"
    ELSE "ok"

NilResource == [isNil |-> TRUE, Schema |-> EmptyMap]

NoGen ==
    [resource |-> NilResource, resourceName |-> "", isDataSource |-> FALSE,
     isResource |-> FALSE, dltaPath |-> <<>>, isForced |-> FALSE]

\* the two loops over the services of getContent for a data source: an
\* entry of the untyped services replaces one of the typed services
\* a lookup that falls back to the resources
lookupDataSourceAnyKind(name) ==
    IF name \in DOMAIN UntypedDataSources
    THEN [isNil |-> FALSE, Schema |-> UntypedDataSources[name]]
    ELSE IF name \in DOMAIN TypedDataSources
    THEN [isNil |-> FALSE, Schema |-> TypedDataSources[name]]
    ELSE IF name \in DOMAIN UntypedResources
    THEN [isNil |-> FALSE, Schema |-> UntypedResources[name]]
    ELSE IF name \in DOMAIN TypedResources
    THEN [isNil |-> FALSE, Schema |-> TypedResources[name]]
    ELSE [isNil |-> TRUE, Schema |-> EmptyMap]

lookupDataSource(name) ==
    IF name \in DOMAIN UntypedDataSources
    THEN [isNil |-> FALSE, Schema |-> UntypedDataSources[name]]
    ELSE IF name \in DOMAIN TypedDataSources
    THEN [isNil |-> FALSE, Schema |-> TypedDataSources[name]]
    ELSE NilResource

lookupResource(name) ==
    IF name \in DOMAIN UntypedResources
    THEN [isNil |-> FALSE, Schema |-> UntypedResources[name]]
    ELSE IF name \in DOMAIN TypedResources
    THEN [isNil |-> FALSE, Schema |-> TypedResources[name]]
    ELSE NilResource

\* the generator getContent builds
generatorOf(resourceName, isResource, dltaPath, isForced) ==
    [resource |-> IF IsSpecial(resourceName) THEN NilResource
                  ELSE IF ~isResource THEN lookupDataSource(resourceName)
                  ELSE lookupResource(resourceName),
     resourceName |-> resourceName, isDataSource |-> ~isResource, isResource |-> isResource,
     dltaPath |-> dltaPath, isForced |-> isForced]

\* the registry collections getContent ranges over
lookupsOf(resourceName, isResource) ==
    IF IsSpecial(resourceName) THEN <<>>
    ELSE IF ~isResource THEN <<"DataSources", "SupportedDataSources">>
    ELSE <<"Resources", "SupportedResources">>

(***************************************************************************)
(* The initial file system: the working directory exists; the target's     *)
(* directories may have been prepared, and its seven files may be there    *)
(* already with someone else's text.                                       *)
(***************************************************************************)
ValidFlags(f) == f.name # "" /\ f.type \in {"data", "resource"} /\ f.dltaPath # <<>>

FlagGen(f) == generatorOf(f.name, f.type = "resource", f.dltaPath, FALSE)

TargetPaths(f, wd) ==
    {Resolve(writeResourceFileName(FlagGen(f), Artefacts[i]), wd) : i \in DOMAIN Artefacts}
    \cup {Resolve(initOutputFileName(FlagGen(f)), wd)}

InitialFileSystems(f, wd) ==
    LET bare == [files |-> EmptyMap, dirs |-> Prefixes(wd)]
        paths == TargetPaths(f, wd)
        tree == UNION {Prefixes(Parent(p)) : p \in paths}
        some == {Resolve(writeResourceFileName(FlagGen(f), a), wd) :
                    a \in {"TerraformTemplate", "ModuleBlock"}}
    IN  IF ~ValidFlags(f) THEN {bare}
        ELSE {bare,
              [files |-> EmptyMap, dirs |-> Prefixes(wd) \cup tree],
              [files |-> [p \in some |-> ForeignText], dirs |-> Prefixes(wd) \cup tree],
              [files |-> [p \in paths |-> ForeignText], dirs |-> Prefixes(wd) \cup tree]}

NotWritten == [path |-> NoPath, published |-> {}]

Init ==
    /\ cwd \in Cwds
    /\ flags \in [name : Names, type : Types, dltaPath : DltaPaths]
    /\ \E fs \in InitialFileSystems(flags, cwd) : files = fs.files /\ dirs = fs.dirs
    /\ args = [outputType |-> "", force |-> ""]
    /\ pc = "idle"
    /\ gen = NoGen
    /\ exit = "none"
    /\ lookups = <<>>
    /\ attempts = <<>>
    /\ before = [files |-> files, dirs |-> dirs]
    /\ edited = FALSE
    /\ initWrote = NotWritten
    /\ runs = 0
    /\ faults = 0
    /\ edits = 0

\* any answer but "n" forces
isForcedOfNotN(force) == force # "n"

\* isForced := *force == "y"
isForcedOf(force) == force = "y"

(***************************************************************************)
(* Actions                                                                 *)
(***************************************************************************)
\* main up to the call of run
Main ==
    /\ pc = "idle"
    /\ runs < MaxRuns
    /\ \E outputType \in OutputTypes, force \in Forces :
          /\ args' = [outputType |-> outputType, force |-> force]
          /\ IF Validate(flags.name, flags.type, outputType, flags.dltaPath, force) # "ok"
             THEN pc' = "idle" /\ exit' = "exit1"
             ELSE pc' = "getContent" /\ exit' = "running"
    /\ runs' = runs + 1
    /\ gen' = NoGen
    /\ lookups' = <<>>
    /\ attempts' = <<>>
    /\ before' = [files |-> files, dirs |-> dirs]
    /\ UNCHANGED <<cwd, files, dirs, flags, edited, initWrote, faults, edits>>

\* run and getContent up to the call of the writer
GetContent ==
    /\ pc = "getContent"
    /\ LET isResource == flags.type = "resource"
           g == generatorOf(flags.name, isResource, flags.dltaPath, isForcedOf(args.force))
       IN  /\ lookups' = lookupsOf(flags.name, isResource)
           /\ IF ~IsSpecial(flags.name) /\ g.resource.isNil
              THEN gen' = NoGen /\ pc' = "idle" /\ exit' = "panic"
              ELSE /\ gen' = g
                   /\ IF args.outputType = "init" THEN pc' = "init" /\ exit' = exit
                      ELSE IF args.outputType = "scaffold"
                      THEN pc' = "scaffold" /\ exit' = exit
                      ELSE pc' = "idle" /\ exit' = "ok"
    /\ UNCHANGED <<cwd, files, dirs, flags, args, attempts, before, edited, initWrote,
                   runs, faults, edits>>

PublishedPaths(sa) == {p \in DOMAIN sa : sa[p].Published}

\* writeInitResourceProperties, and the return of getContent, run and main
WriteInit ==
    /\ pc = "init"
    /\ IF IsSpecial(gen.resourceName)
       THEN UNCHANGED <<files, dirs, attempts, faults, edited, initWrote>>
       ELSE \E fault \in Faults :
              LET w == writeInitResourceProperties(gen, files, dirs, cwd, fault)
              IN  /\ fault = "none" \/ (faults < MaxFaults /\ w.injected)
                  /\ faults' = IF fault = "none" THEN faults ELSE faults + 1
                  /\ files' = w.files
                  /\ dirs' = w.dirs
                  /\ attempts' = Append(attempts,
                         [artefact |-> "PublishedPropertiesSummary", dir |-> w.dir,
                          path |-> w.path, text |-> w.text, mkdir |-> w.mkdir,
                          outcome |-> w.outcome, ioError |-> w.ioError,
                          read |-> NoPath, published |-> {}])
                  /\ IF w.outcome = "written"
                     THEN /\ edited' = FALSE
                          /\ initWrote' = [path |-> Resolve(w.path, cwd),
                                           published |-> PublishedPaths(initFlatted(gen))]
                     ELSE IF w.outcome = "exists" THEN UNCHANGED <<edited, initWrote>>
                     ELSE edited' = FALSE /\ initWrote' = NotWritten
    /\ pc' = "idle"
    /\ exit' = "ok"
    /\ UNCHANGED <<cwd, flags, args, gen, lookups, before, runs, edits>>

\* the text scaffoldConfiguation generates for an artefact
blockOf(a, g, fs, wd, id) ==
    CASE a = "TerraformTemplate" -> terraformTemplateBlock(g, fs, wd)
      [] a = "ModuleBlock" -> terraformModuleBlock(g, fs, wd)
      [] a = "VariableBlock" -> terraformVariableBlock(g, fs, wd)
      [] a = "LocalBlock" -> terraformLocalBlock(g, fs, wd)
      [] a = "PalletteBlock" -> dltaPalletteCodeBlock(g, fs, wd, id)
      [] a = "OutputBlock" -> terraformOutputBlock(g)

\* the artefacts in the order of the Artefact constants
scaffoldOrderDeclared == Artefacts

\* the calls of scaffoldConfiguation, in their order
scaffoldOrder ==
    <<"TerraformTemplate", "ModuleBlock", "VariableBlock", "LocalBlock", "PalletteBlock",
      "OutputBlock">>

\* a failed write that stops the invocation
afterWriteAbort(outcome, n) ==
    IF outcome = "failed" THEN [pc |-> "idle", exit |-> "panic"]
    ELSE IF n = Len(scaffoldOrder) THEN [pc |-> "idle", exit |-> "ok"]
    ELSE [pc |-> "scaffold", exit |-> "running"]

\* a failed write that is tried again instead of being passed over
afterWriteRetry(outcome, n) ==
    IF outcome = "failed" THEN [pc |-> "scaffold", exit |-> "running"]
    ELSE IF n = Len(scaffoldOrder) THEN [pc |-> "idle", exit |-> "ok"]
    ELSE [pc |-> "scaffold", exit |-> "running"]

\* what follows a call of writeResource that returned: the next call, or the
\* return of scaffoldConfiguation, getContent (nil, nil), run (nil) and main.
\* A failed os.Create leaves file nil; Close, WriteString and Sync of a nil
\* *os.File return an error, which the code drops.
afterWrite(outcome, n) ==
    IF n = Len(scaffoldOrder) THEN [pc |-> "idle", exit |-> "ok"]
    ELSE [pc |-> "scaffold", exit |-> "running"]

RECURSIVE attributePaths(_)
attributePaths(attrs) ==
    {attrs[k].ResourcePath : k \in DOMAIN attrs}
    \cup UNION {attributePaths(attrs[k].Attributes) : k \in DOMAIN attrs}

\* one call of writeResource by scaffoldConfiguation; after the last one
\* getContent, run and main return
WriteResource ==
    /\ pc = "scaffold"
    /\ LET a == scaffoldOrder[Len(attempts) + 1]
       IN  \E fault \in Faults, id \in (IF a = "PalletteBlock" THEN UUIDs ELSE {"uuid-1"}) :
             LET w == writeResource(gen, blockOf(a, gen, files, cwd, id), a, files, dirs,
                                    cwd, fault)
             IN  /\ fault = "none" \/ (faults < MaxFaults /\ w.injected)
                 /\ faults' = IF fault = "none" THEN faults ELSE faults + 1
                 /\ files' = w.files
                 /\ dirs' = w.dirs
                 /\ attempts' = Append(attempts,
                        [artefact |-> a, dir |-> w.dir, path |-> w.path, text |-> w.text,
                         mkdir |-> w.mkdir, outcome |-> w.outcome, ioError |-> w.ioError,
                         read |-> IF gen.resource.isNil THEN NoPath
                                  ELSE readOutputPath(gen, cwd),
                         published |-> attributePaths(getPublishedAttributes(gen, files, cwd))])
                 /\ pc' = afterWrite(w.outcome, Len(attempts) + 1).pc
                 /\ exit' = afterWrite(w.outcome, Len(attempts) + 1).exit
    /\ UNCHANGED <<cwd, flags, args, gen, lookups, before, edited, initWrote, runs, edits>>

\* the user edits the summary between two invocations: one Published flag.
\* What the variables record of the last invocation ends with the edit.
EditSummary ==
    /\ pc = "idle"
    /\ edits < MaxEdits
    /\ ValidFlags(flags)
    /\ LET p == Resolve(initOutputFileName(FlagGen(flags)), cwd)
       IN  /\ p \in DOMAIN files
           /\ IsJsonText(files[p])
           /\ \E m \in files[p].json :
                 files' = [files EXCEPT ![p].json =
                              (@ \ {m}) \cup {<<m[1], [m[2] EXCEPT !.Published = ~@]>>}]
    /\ edited' = TRUE
    /\ edits' = edits + 1
    /\ args' = [outputType |-> "", force |-> ""]
    /\ gen' = NoGen
    /\ exit' = "none"
    /\ lookups' = <<>>
    /\ attempts' = <<>>
    /\ before' = [files |-> files', dirs |-> dirs]
    /\ UNCHANGED <<cwd, dirs, flags, pc, initWrote, runs, faults>>

Next == Main \/ GetContent \/ WriteInit \/ WriteResource \/ EditSummary

Spec == Init /\ [][Next]_vars

(***************************************************************************)
(* Properties.  They restate the paths and names they are about instead of *)
(* using the operators of the model.                                       *)
(***************************************************************************)
Started == exit # "none"

KindLetter == IF flags.type = "resource" THEN "r" ELSE "d"

\* <dlta-path>/<r|d>/<name>/resource/<name>.json, as the system resolves it
SummaryTarget ==
    Resolve(flags.dltaPath \o <<Sep, KindLetter, Sep, flags.name, Sep, "resource", Sep,
                                JsonFile(flags.name)>>, cwd)

\* the artefacts of a scaffold run below /<dlta-path>/<r|d>/<name>/, in order
ExpectedArtefacts ==
    <<<<"resource", Sep, "template.json">>, <<"module", Sep, "main.tf">>,
      <<"module", Sep, "variables.tf">>, <<"module", Sep, "local.tf">>,
      <<"resource", Sep, "pallette.sql">>, <<"module", Sep, "output.tf">>>>

ExpectedPath(i) ==
    <<Sep>> \o flags.dltaPath \o <<Sep, KindLetter, Sep, flags.name, Sep>>
            \o ExpectedArtefacts[i]

RegisteredForKind ==
    IF flags.type = "data" THEN (DOMAIN TypedDataSources) \cup (DOMAIN UntypedDataSources)
    ELSE (DOMAIN TypedResources) \cup (DOMAIN UntypedResources)

RegisteredForOtherKind ==
    IF flags.type = "resource" THEN (DOMAIN TypedDataSources) \cup (DOMAIN UntypedDataSources)
    ELSE (DOMAIN TypedResources) \cup (DOMAIN UntypedResources)

InvalidInvocation ==
    \/ flags.name = ""
    \/ flags.type \notin {"data", "resource"}
    \/ args.outputType \notin {"init", "scaffold", "config"}
    \/ flags.dltaPath = <<>>
    \/ args.force = ""

\* the invocation got past the checks of main and the lookup of getContent
Generating == Started /\ ~InvalidInvocation /\ pc # "getContent" /\ exit # "panic"

SameFile(p) ==
    /\ p \in DOMAIN files <=> p \in DOMAIN before.files
    /\ p \in DOMAIN files => files[p] = before.files[p]

NothingChanged ==
    /\ \A p \in (DOMAIN files) \cup (DOMAIN before.files) : SameFile(p)
    /\ dirs = before.dirs

\* C1: an invocation with an empty -name, an empty or unknown -type, an
\* unknown -output-type, an empty -dlta-path or an empty -force exits with
\* status 1 before run is called: nothing is looked up in the registry and
\* no file or directory is created, removed or changed.
C1_InvalidFlagsExitBeforeRun ==
    (Started /\ InvalidInvocation) =>
        /\ pc = "idle"
        /\ exit = "exit1"
        /\ lookups = <<>>
        /\ attempts = <<>>
        /\ NothingChanged

C1_Witness ==
    /\ Started
    /\ exit = "exit1"
    /\ flags.name = "azurerm_subnet" /\ flags.type = "resource" /\ flags.dltaPath # <<>>
    /\ args.outputType = "scaffold" /\ args.force = ""
    /\ SummaryTarget \in DOMAIN files

\* C2: for a name other than terraform_azurerm and devops_pipeline only the
\* collections of the selected kind are consulted; a name no entry of that
\* kind has ends the invocation with the error of run (main panics) and
\* nothing is written, also when the other kind has the name.
C2_LookupOnlySelectedKind ==
    (Started /\ ~InvalidInvocation /\ ~IsSpecial(flags.name)) =>
        /\ lookups \in {<<>>,
                         IF flags.type = "data" THEN <<"DataSources", "SupportedDataSources">>
                         ELSE <<"Resources", "SupportedResources">>}
        /\ (pc # "getContent" /\ flags.name \notin RegisteredForKind) =>
              /\ lookups # <<>>
              /\ pc = "idle"
              /\ exit = "panic"
              /\ attempts = <<>>
              /\ NothingChanged

C2_Witness ==
    /\ Started /\ ~InvalidInvocation
    /\ exit = "panic"
    /\ flags.name \in RegisteredForOtherKind
    /\ flags.type = "data"
    /\ args.outputType = "scaffold"

\* C3: in init mode, for a registered name, no file other than
\* <dlta-path>/<r|d>/<name>/resource/<name>.json is created, removed or
\* changed, and the only write attempted is the one of that file.
C3_InitWritesOnlySummary ==
    (Generating /\ args.outputType = "init" /\ flags.name \in RegisteredForKind) =>
        /\ \A p \in (DOMAIN files) \cup (DOMAIN before.files) :
              p # SummaryTarget => SameFile(p)
        /\ \A i \in DOMAIN attempts :
              /\ Resolve(attempts[i].path, cwd) = SummaryTarget
              /\ attempts[i].artefact = "PublishedPropertiesSummary"
        /\ Len(attempts) <= 1

C3_Witness ==
    /\ Generating /\ args.outputType = "init" /\ flags.name \in RegisteredForKind
    /\ pc = "idle" /\ exit = "ok"
    /\ Len(attempts) = 1 /\ attempts[1].outcome = "written"
    /\ ~SameFile(SummaryTarget)
    /\ Resolve(ExpectedPath(1), cwd) \in DOMAIN files

\* C4: a scaffold run attempts exactly six writes, in the order
\* resource/template.json, module/main.tf, module/variables.tf,
\* module/local.tf, resource/pallette.sql, module/output.tf, all below
\* /<dlta-path>/<r|d>/<name>/, and leaves the summary <name>.json as it was.
C4_ScaffoldSixWritesInOrder ==
    (Generating /\ args.outputType = "scaffold") =>
        /\ Len(attempts) <= 6
        /\ \A i \in DOMAIN attempts : attempts[i].path = ExpectedPath(i)
        /\ pc = "idle" => Len(attempts) = 6
        /\ pc # "idle" => (pc = "scaffold" /\ Len(attempts) < 6)
        /\ SameFile(SummaryTarget)

C4_Witness ==
    /\ Generating /\ args.outputType = "scaffold"
    /\ pc = "idle" /\ exit = "ok"
    /\ Len(attempts) = 6
    /\ \A i \in DOMAIN attempts : attempts[i].outcome = "written"
    /\ SummaryTarget \in DOMAIN files /\ IsJsonText(files[SummaryTarget])

\* C5: when -force is not "y", a target file that exists keeps its content
\* and is only reported; in a scaffold run this is decided file by file:
\* the files that are missing are created, the others stay as they are.
C5_UnforcedKeepsExistingFiles ==
    (Generating /\ args.force # "y") =>
        /\ \A p \in DOMAIN before.files : p \in DOMAIN files /\ files[p] = before.files[p]
        /\ \A i \in DOMAIN attempts :
              LET p == Resolve(attempts[i].path, cwd)
              IN  /\ p \in DOMAIN before.files <=> attempts[i].outcome = "exists"
                  /\ (p \notin DOMAIN before.files /\ ~attempts[i].ioError) =>
                        (p \in DOMAIN files /\ files[p] = attempts[i].text)

C5_Witness ==
    /\ Generating /\ args.force # "y" /\ args.outputType = "scaffold"
    /\ pc = "idle" /\ exit = "ok"
    /\ \E i, j \in DOMAIN attempts :
          /\ attempts[i].outcome = "exists"
          /\ attempts[j].outcome = "written"
          /\ files[Resolve(attempts[i].path, cwd)] = ForeignText

AllOperationsSucceeded == \A i \in DOMAIN attempts : ~attempts[i].ioError

\* C6: with -force y and every file operation succeeding, a finished
\* scaffold run leaves in each of its six files the text this run generated
\* and a finished init run leaves in the summary the trimmed JSON this run
\* generated, whatever the files held before.
C6_ForcedRunOverwrites ==
    (Generating /\ args.force = "y" /\ pc = "idle" /\ AllOperationsSucceeded) =>
        /\ args.outputType = "scaffold" =>
              /\ Len(attempts) = 6
              /\ \A i \in DOMAIN attempts :
                    /\ Resolve(ExpectedPath(i), cwd) \in DOMAIN files
                    /\ files[Resolve(ExpectedPath(i), cwd)] = attempts[i].text
        /\ (args.outputType = "init" /\ ~IsSpecial(flags.name)) =>
              /\ Len(attempts) = 1
              /\ SummaryTarget \in DOMAIN files
              /\ files[SummaryTarget] = attempts[1].text
              /\ IsJsonText(attempts[1].text)
              /\ attempts[1].text.lead = 0 /\ attempts[1].text.trail = 0
              /\ Unmarshal(attempts[1].text) =
                    summariseAttributes(
                        getAllInputAttributes(gen.resource.Schema, <<flags.name>>), TRUE)

C6_Witness ==
    /\ Generating /\ args.force = "y" /\ pc = "idle" /\ AllOperationsSucceeded
    /\ args.outputType = "scaffold"
    /\ \A i \in 1..6 :
          /\ Resolve(ExpectedPath(i), cwd) \in DOMAIN before.files
          /\ before.files[Resolve(ExpectedPath(i), cwd)] # attempts[i].text

C6_WitnessInit ==
    /\ Generating /\ args.force = "y" /\ pc = "idle" /\ AllOperationsSucceeded
    /\ args.outputType = "init" /\ ~IsSpecial(flags.name)
    /\ SummaryTarget \in DOMAIN before.files
    /\ before.files[SummaryTarget] # files[SummaryTarget]

\* C7: when the directory or the file of an artefact cannot be created,
\* the scaffold run goes on: the artefacts after it are attempted in order,
\* run returns nil and the process neither exits with status 1 nor panics.
C7_FailedWriteDoesNotStopScaffold ==
    (Started /\ ~InvalidInvocation /\ args.outputType = "scaffold"
       /\ \E i \in DOMAIN attempts : attempts[i].outcome = "failed") =>
        /\ exit \in {"running", "ok"}
        /\ pc = "idle" => (exit = "ok" /\ Len(attempts) = 6)
        /\ pc # "idle" => (pc = "scaffold" /\ exit = "running")
        /\ \A i \in DOMAIN attempts : attempts[i].path = ExpectedPath(i)

C7_Witness ==
    /\ Started /\ ~InvalidInvocation /\ args.outputType = "scaffold"
    /\ pc = "idle" /\ exit = "ok"
    /\ Len(attempts) = 6
    /\ attempts[2].outcome = "failed"
    /\ \A i \in {1, 3, 4, 5, 6} : attempts[i].outcome = "written"

\* the template of a name nothing is published for: the header, the six
\* dlta_* assignments, the closing brace
BareTemplateLines ==
    (IF flags.type = "data"
     THEN <<[lhs |-> <<"data", flags.name>>, form |-> "open",
             ref |-> <<"dlta_terraform_module_name">>]>>
     ELSE <<[lhs |-> <<"module">>, form |-> "open", ref |-> <<"dlta_terraform_module_name">>],
            [lhs |-> <<"source">>, form |-> "modules_path", ref |-> <<flags.name>>]>>)
    \o <<[lhs |-> <<"dlta_location_short_code">>, form |-> "bare",
           ref |-> <<"dlta_location_short_code">>],
          [lhs |-> <<"dlta_environment_char">>, form |-> "bare",
           ref |-> <<"dlta_environment_char">>],
          [lhs |-> <<"dlta_business_short_code">>, form |-> "bare",
           ref |-> <<"dlta_business_short_code">>],
          [lhs |-> <<"dlta_application_short_code">>, form |-> "bare",
           ref |-> <<"dlta_application_short_code">>],
          [lhs |-> <<"dlta_instance_id">>, form |-> "bare", ref |-> <<"dlta_instance_id">>],
          [lhs |-> <<"dlta_vendor_asset_short_code">>, form |-> "bare",
           ref |-> <<"dlta_vendor_asset_short_code">>]>>

\* C8: a scaffold run for a registered name whose summary does not exist
\* still makes its six write attempts: nothing is published, and the
\* template is the header line(s), the six dlta_* assignments and the
\* closing brace.
C8_ScaffoldWithoutSummary ==
    (Generating /\ args.outputType = "scaffold" /\ flags.name \in RegisteredForKind
       /\ SummaryTarget \notin DOMAIN before.files) =>
        /\ \A i \in DOMAIN attempts :
              /\ attempts[i].published = {}
              /\ attempts[i].artefact = "TerraformTemplate" =>
                    /\ attempts[i].text.fixed = BareTemplateLines
                    /\ attempts[i].text.loop = EmptyBag
                    /\ attempts[i].text.tail = <<[lhs |-> <<>>, form |-> "close", ref |-> <<>>]>>
        /\ pc = "idle" =>
              /\ exit = "ok"
              /\ Len(attempts) = 6
              /\ \A i \in DOMAIN attempts :
                    \/ attempts[i].outcome = "written"
                    \/ attempts[i].ioError
                    \/ Resolve(ExpectedPath(i), cwd) \in DOMAIN before.files

C8_Witness ==
    /\ Generating /\ args.outputType = "scaffold"
    /\ flags.name = "azurerm_private_endpoint" /\ flags.type = "resource"
    /\ SummaryTarget \notin DOMAIN before.files
    /\ pc = "idle" /\ exit = "ok"
    /\ \A i \in DOMAIN attempts : attempts[i].outcome = "written"

\* C9: a scaffold run after an init run that wrote the summary, with the
\* same -name, -type and -dlta-path, reads the file init wrote, and while
\* nobody edited the file the attributes it takes as published are exactly
\* the resource paths init marked Published.
C9_ScaffoldReadsWhatInitWrote ==
    (Generating /\ args.outputType = "scaffold" /\ initWrote.path # NoPath) =>
        \A i \in DOMAIN attempts :
            /\ attempts[i].read = initWrote.path
            /\ ~edited => attempts[i].published = initWrote.published

C9_Witness ==
    /\ Generating /\ args.outputType = "scaffold" /\ initWrote.path # NoPath /\ ~edited
    /\ pc = "idle" /\ exit = "ok"
    /\ flags.dltaPath = <<"dlta">> /\ cwd = <<"home">>
    /\ \E p \in attempts[1].published : Len(p) = 3

\* C10: for every artefact, in init and in scaffold mode, the directory
\* made with MkdirAll just before the write is the parent directory of the
\* file then created, for a relative -dlta-path as for an absolute one.
C10_MkdirAllMakesTheParent ==
    \A i \in DOMAIN attempts :
        attempts[i].mkdir =>
            Resolve(attempts[i].dir, cwd) = Parent(Resolve(attempts[i].path, cwd))

\* <dlta-path>/<r|d>/<name>/, as the system resolves it
BaseDirectory == Resolve(flags.dltaPath \o <<Sep, KindLetter, Sep, flags.name>>, cwd)

\* C11: for one -dlta-path, kind and name the summary init wrote and the
\* six files of scaffold lie under the one base directory
\* <dlta-path>/<r|d>/<name>/, the summary, template.json and pallette.sql in
\* the same resource/ subdirectory, for a relative -dlta-path as for an
\* absolute one.
C11_OneBaseDirectory ==
    (Generating /\ args.outputType = "scaffold" /\ initWrote.path # NoPath) =>
        /\ Parent(Parent(initWrote.path)) = BaseDirectory
        /\ \A i \in DOMAIN attempts :
              LET p == Resolve(attempts[i].path, cwd)
              IN  /\ Parent(Parent(p)) = BaseDirectory
                  /\ attempts[i].artefact \in {"TerraformTemplate", "PalletteBlock"} =>
                        Parent(p) = Parent(initWrote.path)

\* the steps an invocation has left at most: the lookup, then one write of
\* init or the writes of scaffold that were not made yet
Remaining ==
    CASE pc = "idle" -> 0
      [] pc = "getContent" -> 7
      [] pc = "init" -> 1
      [] pc = "scaffold" -> 6 - Len(attempts)

\* C12: every invocation is one-shot and terminates.  Each step of a running
\* invocation leaves fewer steps to take, of which there are at most seven
\* (the walks over the schema tree return within a step), and the
\* invocation is over exactly when none is left; it ends in exit status 1
\* (invalid flags), a panic (a name that was not registered) or a normal
\* return.
C12_EveryInvocationTerminates ==
    /\ [](pc # "idle" => (Remaining > 0 /\ Remaining <= 7 /\ exit = "running"))
    /\ []((Started /\ pc = "idle") =>
            /\ exit \in {"exit1", "panic", "ok"}
            /\ exit = "exit1" <=> InvalidInvocation
            /\ exit = "panic" <=>
                  (~InvalidInvocation /\ ~IsSpecial(flags.name)
                     /\ flags.name \notin RegisteredForKind))
    /\ [][pc # "idle" => (Remaining' < Remaining /\ (Remaining' = 0 <=> pc' = "idle"))]_vars

C12_Witness ==
    /\ Started /\ pc = "idle" /\ exit = "ok"
    /\ flags.name = "azurerm_nested" /\ args.outputType = "scaffold"
    /\ Len(attempts) = 6
    /\ \E p \in attempts[6].published : Len(p) = 5

\* the resource paths of the Required and Optional fields of a schema tree
RECURSIVE InputPaths(_, _)
InputPaths(schema, prefix) ==
    UNION {{prefix \o <<f>>}
             \cup (IF schema[f].Elem.isResource
                   THEN InputPaths(schema[f].Elem.Schema, prefix \o <<f>>) ELSE {}) :
           f \in {x \in DOMAIN schema : schema[x].Required \/ schema[x].Optional}}

\* the schema registered for -name and -type
RegisteredSchema ==
    IF flags.type = "data"
    THEN Merge(TypedDataSources, UntypedDataSources)[flags.name]
    ELSE Merge(TypedResources, UntypedResources)[flags.name]

\* the attributes four or more levels deep: <name>.a.b.c.d and longer
DeepPaths == {p \in InputPaths(RegisteredSchema, <<flags.name>>) : Len(p) >= 5}

\* the field names that occur at the first three levels
ShallowNames ==
    {p[Len(p)] : p \in {q \in InputPaths(RegisteredSchema, <<flags.name>>) : Len(q) < 5}}

LinesOf(text) ==
    {text.fixed[i] : i \in DOMAIN text.fixed} \cup (DOMAIN text.loop)
        \cup {text.tail[i] : i \in DOMAIN text.tail}

Mentions(l, n) ==
    \/ \E i \in DOMAIN l.lhs : l.lhs[i] = n
    \/ \E i \in DOMAIN l.ref : l.ref[i] = n

\* C13: an attribute four or more levels deep gets an entry in the summary
\* init generates, but no line of template.json, main.tf or variables.tf and
\* no control of pallette.sql is made for it, whatever the summary says is
\* published: its name occurs in none of their lines (unless an attribute
\* of the first three levels has the same name).
C13_EmittersStopAtThreeLevels ==
    (Generating /\ flags.name \in RegisteredForKind) =>
        \A i \in DOMAIN attempts : \A p \in DeepPaths :
            /\ attempts[i].artefact = "PublishedPropertiesSummary" =>
                  \E m \in attempts[i].text.json : m[1] = p
            /\ (/\ attempts[i].artefact \in {"TerraformTemplate", "ModuleBlock",
                                               "VariableBlock", "PalletteBlock"}
                /\ p[Len(p)] \notin ShallowNames) =>
                  \A l \in LinesOf(attempts[i].text) : ~Mentions(l, p[Len(p)])

C13_Witness ==
    /\ Generating /\ flags.name \in RegisteredForKind /\ args.outputType = "scaffold"
    /\ pc = "idle" /\ exit = "ok"
    /\ \E p \in DeepPaths :
          /\ p[Len(p)] \notin ShallowNames
          /\ \A i \in DOMAIN attempts :
                /\ \A n \in 2..Len(p) : SubSeq(p, 1, n) \in attempts[i].published
                /\ attempts[i].artefact \in {"TerraformTemplate", "ModuleBlock",
                                               "VariableBlock", "PalletteBlock"} =>
                      \E l \in LinesOf(attempts[i].text) : Mentions(l, p[Len(p) - 1])

\* the schema.Schema of the field a resource path names
RECURSIVE FieldAt(_, _)
FieldAt(schema, names) ==
    IF Len(names) = 1 THEN schema[names[1]]
    ELSE FieldAt(schema[names[1]].Elem.Schema, Tail(names))

\* the attributes of the first three levels
WalkedPaths == {p \in InputPaths(RegisteredSchema, <<flags.name>>) : Len(p) <= 4}

ComputedPaths == {p \in WalkedPaths : FieldAt(RegisteredSchema, Tail(p)).Computed}

\* C14: variables.tf declares no variable for an attribute whose schema is
\* Computed, be it a top-level attribute, the child of a block or the child
\* of a nested block (unless an attribute that is not Computed has the same
\* name), whatever the summary says is published.
C14_ComputedNeverVariables ==
    (Generating /\ flags.name \in RegisteredForKind) =>
        \A i \in DOMAIN attempts :
            attempts[i].artefact = "VariableBlock" =>
                \A p \in ComputedPaths :
                    (\A q \in WalkedPaths \ ComputedPaths : q[Len(q)] # p[Len(p)]) =>
                        \A l \in LinesOf(attempts[i].text) :
                            ~(l.form = "variable" /\ l.lhs = <<p[Len(p)]>>)

\* the lines of a text that assign `n`, before the loop and in it
FixedHits(text, n) == {i \in DOMAIN text.fixed : text.fixed[i].lhs = <<n>>}

LoopHits(text, n) == {l \in DOMAIN text.loop : l.lhs = <<n>>}

AtMostOnce(text, n) ==
    /\ Cardinality(FixedHits(text, n)) + Cardinality(LoopHits(text, n)) <= 1
    /\ \A l \in LoopHits(text, n) : text.loop[l] = 1

\* C15: the template generated for a registered name has no line that
\* assigns name, and assigns location and each of the six dlta_* codes at
\* most once, whatever attributes are published at any level.
C15_FixedAssignmentsAtMostOnce ==
    (Generating /\ flags.name \in RegisteredForKind) =>
        \A i \in DOMAIN attempts :
            attempts[i].artefact = "TerraformTemplate" =>
                /\ FixedHits(attempts[i].text, "name") = {}
                /\ LoopHits(attempts[i].text, "name") = {}
                /\ \A n \in {"location", "dlta_location_short_code", "dlta_environment_char",
                               "dlta_business_short_code", "dlta_application_short_code",
                               "dlta_instance_id", "dlta_vendor_asset_short_code"} :
                      AtMostOnce(attempts[i].text, n)

\* C16: the text generated for output.tf declares exactly the outputs id
\* and name, each once and with the value <resourceName>.this.<output>, for
\* every registered resource or data source whatever its schema and its
\* published attributes; for terraform_azurerm and devops_pipeline it is
\* empty.
C16_OutputsAreIdAndName ==
    Generating =>
        \A i \in DOMAIN attempts :
            attempts[i].artefact = "OutputBlock" =>
                /\ attempts[i].text.fixed = <<>>
                /\ attempts[i].text.tail = <<>>
                /\ flags.name \in RegisteredForKind =>
                      /\ DOMAIN attempts[i].text.loop =
                            {[lhs |-> <<k>>, form |-> "output",
                              ref |-> <<flags.name, "this", k>>] : k \in {"id", "name"}}
                      /\ \A l \in DOMAIN attempts[i].text.loop : attempts[i].text.loop[l] = 1
                /\ IsSpecial(flags.name) => DOMAIN attempts[i].text.loop = {}

C16_Witness ==
    /\ Generating /\ pc = "idle" /\ exit = "ok" /\ args.outputType = "scaffold"
    /\ flags.name = "azurerm_subnet" /\ flags.type = "data"
    /\ attempts[6].artefact = "OutputBlock"
    /\ attempts[6].outcome = "written"
    /\ attempts[6].published # {}
====
